---------------------------- MODULE Spec2Model ----------------------------
(***************************************************************************)
(* A model of the fileinfo command line tool: the file_type decorator and  *)
(* plugin discovery (src/src/fileinfo/plugins.py), the traversal and       *)
(* dispatch driver (src/src/fileinfo/__main__.py) and the two bundled      *)
(* plugins (src/src/fileinfo_csv_plugin.py, src/src/fileinfo_text_plugin.py)*)
(*                                                                         *)
(* Strings that the code inspects character by character (file names,      *)
(* file contents, regular expressions) are sequences of one-character      *)
(* strings; strings the code only builds and forwards (output lines) are   *)
(* TLA+ strings.                                                           *)
(***************************************************************************)
EXTENDS Integers, Sequences, FiniteSets, TLC

(***************************************************************************)
(* Generic helpers.                                                        *)
(***************************************************************************)
Range(s) == { s[i] : i \in 1..Len(s) }

Max(a, b) == IF a >= b THEN a ELSE b

RECURSIVE Str(_)
\* "".join(chars): the string spelled by a sequence of characters.
Str(cs) == IF cs = <<>> THEN "" ELSE Head(cs) \o Str(Tail(cs))

RECURSIVE Perms(_)
\* All orderings (sequences without repetition) of a finite set.
Perms(S) ==
    IF S = {} THEN { <<>> }
    ELSE UNION { { <<x>> \o p : p \in Perms(S \ {x}) } : x \in S }

(***************************************************************************)
(* Regular expressions, as far as the registered patterns use them: a      *)
(* pattern is a sequence of atoms, each a literal character or the         *)
(* metacharacter "." (ch = "ANY"), optionally starred.                     *)
(***************************************************************************)
Lit(c)  == [ch |-> c, star |-> FALSE]
AnyStar == [ch |-> "ANY", star |-> TRUE]

PatAll  == << AnyStar >>                                   \* ".*"
PatCsv  == << Lit("."), Lit("c"), Lit("s"), Lit("v") >>    \* r"\.csv"
PatTxt  == << Lit("."), Lit("t"), Lit("x"), Lit("t") >>    \* r"\.txt"
PatC    == << Lit("."), Lit("c") >>                        \* r"\.c"
PatSv   == << Lit("s"), Lit("v") >>                        \* "sv"

\* Whether one atom accepts one character ("." accepts all but a newline).
Accepts(atom, c) == IF atom.ch = "ANY" THEN c # "\n" ELSE atom.ch = c

\* The positions a match can stand at after one more atom.
StepAtom(atom, s, P) ==
    IF atom.star
    THEN { q \in 0..Len(s) : \E p \in P : p <= q /\ \A k \in (p + 1)..q : Accepts(atom, s[k]) }
    ELSE { p + 1 : p \in { r \in P : r < Len(s) /\ Accepts(atom, s[r + 1]) } }

RECURSIVE EndsFrom(_, _, _)
\* The positions at which a match of pat, begun at one of P, can end.
EndsFrom(pat, s, P) ==
    IF pat = <<>> THEN P ELSE EndsFrom(Tail(pat), s, StepAtom(Head(pat), s, P))

\* re.fullmatch(pat, s): a match that must consume all of s.
ReFullMatch(pat, s) == Len(s) \in EndsFrom(pat, s, {0})

\* re.match(pat, s): a match anchored at position 0 that may end anywhere.
ReMatch(pat, s) == EndsFrom(pat, s, {0}) # {}

(***************************************************************************)
(* pathlib: names, suffixes and the ordering of paths.                     *)
(***************************************************************************)
\* The index of the last "." of a name, 0 when it has none (str.rfind, 1-based).
RFindDot(name) ==
    LET D == { i \in 1..Len(name) : name[i] = "." }
    IN IF D = {} THEN 0 ELSE CHOOSE i \in D : \A j \in D : j <= i

\* PurePath.suffix: the last dot and what follows it, unless that dot leads or
\* ends the name.
Suffix(name) ==
    LET i == RFindDot(name)
    IN IF 1 < i /\ i < Len(name) THEN SubSeq(name, i, Len(name)) ELSE <<>>

\* Code points of the characters that occur in paths.
CharCode(c) ==
    CASE c = "." -> 46
      [] c = "a" -> 97  [] c = "b" -> 98  [] c = "c" -> 99  [] c = "d" -> 100
      [] c = "e" -> 101 [] c = "n" -> 110 [] c = "s" -> 115 [] c = "t" -> 116
      [] c = "v" -> 118 [] c = "x" -> 120 [] c = "z" -> 122

\* str.upper() on one character.
UpperChar(c) ==
    CASE c = "a" -> "A" [] c = "b" -> "B" [] c = "c" -> "C" [] c = "d" -> "D"
      [] c = "e" -> "E" [] c = "n" -> "N" [] c = "s" -> "S" [] c = "t" -> "T"
      [] c = "v" -> "V" [] c = "x" -> "X" [] c = "z" -> "Z" [] OTHER -> c

Upper(cs) == [ i \in 1..Len(cs) |-> UpperChar(cs[i]) ]

RECURSIVE StrLess(_, _)
\* a < b on strings: lexicographic by code point.
StrLess(a, b) ==
    IF b = <<>> THEN FALSE
    ELSE IF a = <<>> THEN TRUE
    ELSE IF Head(a) # Head(b) THEN CharCode(Head(a)) < CharCode(Head(b))
    ELSE StrLess(Tail(a), Tail(b))

RECURSIVE PartsLess(_, _)
\* PurePath.__lt__: the lists of path parts compared lexicographically.
PartsLess(p, q) ==
    IF q = <<>> THEN FALSE
    ELSE IF p = <<>> THEN TRUE
    ELSE IF Head(p) # Head(q) THEN StrLess(Head(p), Head(q))
    ELSE PartsLess(Tail(p), Tail(q))

(***************************************************************************)
(* The directory tree the tool is run on.  A path is its sequence of parts, *)
(* a part a sequence of characters.  FileTable lists the regular files;    *)
(* a file is known by its index in it.                                     *)
(***************************************************************************)
DirD == << <<"d">> >>
DirS == << <<"d">>, <<"s">> >>
Gone == << <<"z">> >>                   \* names nothing on the filesystem
Shut == << <<"d">>, <<"x">> >>          \* a directory that cannot be listed
Barred == << <<"b">>, <<"a">> >>        \* inside a directory that cannot be searched

FileTable ==
    << [path |-> DirD \o << <<"t", ".", "t", "x", "t">> >>,
        content |-> <<"a", "\n", "b", "b", "\n", "c", "c", "c", "\n">>],
       [path |-> DirD \o << <<"a", ".", "c", "s", "v">> >>,
        content |-> <<"x", ",", "x", "\n", "x", "\n">>],
       [path |-> DirD \o << <<"e", ".", "c", "s", "v">> >>,
        content |-> <<>>],
       [path |-> DirS \o << <<"n">> >>,
        content |-> <<"a", " ", "b">>],
       [path |-> DirD \o << <<".", "c">> >>,
        content |-> <<"x">>],
       [path |-> DirS \o << <<"b", ".", "c", "s", "v", "x">> >>,
        content |-> <<"x", "\n", "\n", "x", ",", "x", ",", "x">>] >>

FileIds == 1..Len(FileTable)

PathOf(f) == FileTable[f].path
NameOf(f) == PathOf(f)[Len(PathOf(f))]
ContentOf(f) == FileTable[f].content

\* path.suffix of a file of the tree.
SuffixOf(f) == Suffix(NameOf(f))

IsPrefix(p, q) == Len(p) < Len(q) /\ SubSeq(q, 1, Len(p)) = p

\* Path.is_file(): TRUE for a regular file, FALSE for a directory or a missing
\* path; it raises (PermissionError) where the path cannot be reached.
IsFile(p) == \E f \in FileIds : PathOf(f) = p
IsFileRaises(p) == p = Barred

\* Path.rglob("*") restricted to regular files: every file below p.  A missing
\* path and a directory that cannot be listed yield nothing, without an error.
FilesBelow(p) ==
    IF p \in {Gone, Shut} THEN {} ELSE { f \in FileIds : IsPrefix(p, PathOf(f)) }

RECURSIVE SortFiles(_)
\* sorted(file_paths): ascending by path.
SortFiles(S) ==
    IF S = {} THEN <<>>
    ELSE LET m == CHOOSE x \in S : \A y \in S \ {x} : PartsLess(PathOf(x), PathOf(y))
         IN <<m>> \o SortFiles(S \ {m})

(***************************************************************************)
(* The content handlers.  A run of a handler on a file is the lines it     *)
(* yields and whether it then raises instead of finishing.                 *)
(***************************************************************************)
Ran(lines, raised) == [lines |-> lines, raised |-> raised]

CountOf(c, s) == Cardinality({ i \in 1..Len(s) : s[i] = c })

IsSpace(c) == c \in {" ", "\n"}

\* len(contents.split('\n')): the segments between newlines.
SplitNewlineCount(s) == CountOf("\n", s) + 1

\* len(contents.split()): the maximal runs of characters that are not whitespace.
SplitWordsCount(s) ==
    Cardinality({ i \in 1..Len(s) : ~IsSpace(s[i]) /\ (i = 1 \/ IsSpace(s[i - 1])) })

RECURSIVE FileLines(_)
\* Iterating an open text file: the lines, the last one with or without its newline.
FileLines(s) ==
    IF s = <<>> THEN <<>>
    ELSE LET N == { i \in 1..Len(s) : s[i] = "\n" }
         IN IF N = {} THEN << s >>
            ELSE LET i == CHOOSE k \in N : \A j \in N : k <= j
                 IN << SubSeq(s, 1, i - 1) >> \o FileLines(SubSeq(s, i + 1, Len(s)))

\* list(csv.reader(f)), each row reduced to its number of fields: a blank line
\* is a row of no field.
CsvRowLens(s) ==
    LET L == FileLines(s)
    IN [ i \in 1..Len(L) |-> IF L[i] = <<>> THEN 0 ELSE CountOf(",", L[i]) + 1 ]

RECURSIVE MaxOf(_)
MaxOf(ns) == IF Len(ns) = 1 THEN ns[1] ELSE Max(Head(ns), MaxOf(Tail(ns)))

RECURSIVE PathStr(_)
PathStr(p) == IF p = <<>> THEN "" ELSE "/" \o Str(Head(p)) \o PathStr(Tail(p))

\* fileinfo.plugins.default
default(f) ==
    Ran(<< PathStr(PathOf(f)),
           IF SuffixOf(f) # <<>> THEN Str(Upper(SuffixOf(f))) \o " file" ELSE "File",
           ToString(Len(ContentOf(f))) \o " bytes" >>, FALSE)

\* fileinfo_csv_plugin.process_csv: max() of no rows raises after "Rows 0".
process_csv(f) ==
    LET rows == CsvRowLens(ContentOf(f))
    IN IF rows = <<>>
       THEN Ran(<< "Rows 0" >>, TRUE)
       ELSE Ran(<< "Rows " \o ToString(Len(rows)),
                   "Columns " \o ToString(MaxOf(rows)) >>, FALSE)

\* fileinfo_text_plugin.process_txt
process_txt(f) ==
    Ran(<< "Lines " \o ToString(SplitNewlineCount(ContentOf(f))),
           "Words " \o ToString(SplitWordsCount(ContentOf(f))) >>, FALSE)

\* Handlers of a third-party provider, written to the extension contract: one
\* that yields a line, one that yields nothing, one that raises after a line.
describe(f) == Ran(<< "Extra" >>, FALSE)
nothing(f) == Ran(<<>>, FALSE)
zz_fail(f) == Ran(<< "partial" >>, TRUE)

\* Calling a handler by name.
RunHandler(h, f) ==
    CASE h = "default" -> default(f)
      [] h = "process_csv" -> process_csv(f)
      [] h = "process_txt" -> process_txt(f)
      [] h = "describe" -> describe(f)
      [] h = "nothing" -> nothing(f)
      [] h = "zz_fail" -> zz_fail(f)

(***************************************************************************)
(* The file_type decorator.  The attribute _fileinfo_registered_type of a  *)
(* function is absent, a set of patterns, or some other value.             *)
(***************************************************************************)
Absent == [kind |-> "absent", pats |-> {}]
AsSet(P) == [kind |-> "set", pats |-> P]
Other == [kind |-> "other", pats |-> {}]

\* A decorator that replaces the attribute on every use: a wrong variant.
FileTypeReplacing(patterns, at) == AsSet(Range(patterns))

\* file_type(*patterns)(func), as the new value of func's attribute: an
\* existing set is updated, anything else is replaced by {*patterns}.
FileType(patterns, at) ==
    IF at.kind = "set" THEN AsSet(at.pats \cup Range(patterns)) ELSE AsSet(Range(patterns))

\* _is_plugin_func, for a function object: the attribute is there.
IsPluginFunc(at) == at.kind # "absent"

(***************************************************************************)
(* The importable modules.  A module's body is the statements its import   *)
(* runs: uses of the decorator, or an assignment of a value that is not a  *)
(* set to the attribute.  funcs lists its functions by name, in the order  *)
(* of inspect.getmembers (sorted); subs are a package's submodules.        *)
(***************************************************************************)
Deco(f, patterns) == [op |-> "file_type", func |-> f, pats |-> patterns]
Assign(f) == [op |-> "assign", func |-> f, pats |-> <<>>]

Mod(n, st, en, pkg, bad, b, fs, sm) ==
    [name |-> n, startsFileinfo |-> st, endsPlugin |-> en, isPkg |-> pkg,
     importRaises |-> bad, body |-> b, funcs |-> fs, subs |-> sm]

\* fileinfo.plugins itself, imported before discovery starts.
ModPlugins ==
    Mod("fileinfo.plugins", TRUE, FALSE, FALSE, FALSE,
        << Deco("default", << PatAll >>) >>, << "default" >>, <<>>)

\* What pkgutil.iter_modules() can list, sorted by name as it lists them.
ModuleTable ==
    << Mod("fileinfo", TRUE, FALSE, TRUE, FALSE, <<>>, <<>>, <<>>),
       Mod("fileinfo_bad_plugin", TRUE, TRUE, FALSE, TRUE, <<>>, <<>>, <<>>),
       Mod("fileinfo_csv_plugin", TRUE, TRUE, FALSE, FALSE,
           << Deco("process_csv", << PatCsv >>) >>, << "process_csv" >>, <<>>),
       Mod("fileinfo_extra_plugin", TRUE, TRUE, FALSE, FALSE,
           << Deco("describe", << PatC >>), Deco("describe", << PatCsv, PatC >>),
              Deco("nothing", << PatTxt, PatSv >>), Deco("zz_fail", << PatAll >>) >>,
           << "describe", "nothing", "zz_fail" >>, <<>>),
       Mod("fileinfo_pkg_plugin", TRUE, TRUE, TRUE, FALSE, <<>>, <<>>,
           << Mod("sub", FALSE, FALSE, FALSE, FALSE,
                  << Deco("in_package", << PatTxt >>) >>, << "in_package" >>, <<>>) >>),
       Mod("fileinfo_poison_plugin", TRUE, TRUE, FALSE, FALSE,
           << Assign("poisoned") >>, << "poisoned" >>, <<>>),
       Mod("fileinfo_text_plugin", TRUE, TRUE, FALSE, FALSE,
           << Deco("process_txt", << PatTxt >>) >>, << "process_txt" >>, <<>>),
       Mod("zipfile", FALSE, FALSE, FALSE, FALSE, <<>>, <<>>, <<>>) >>

Funcs ==
    { "default", "process_csv", "process_txt", "describe", "nothing", "zz_fail",
      "in_package", "poisoned" }

NoAttrs == [ f \in Funcs |-> Absent ]

RECURSIVE RunBody(_, _)
\* Executing a module body: the attributes of the functions afterwards.
RunBody(body, at) ==
    IF body = <<>> THEN at
    ELSE LET st == Head(body)
             new == IF st.op = "file_type" THEN FileType(st.pats, at[st.func]) ELSE Other
         IN RunBody(Tail(body), [at EXCEPT ![st.func] = new])

IsInstalled(m, inst) == m.name \in inst

\* pkgutil.iter_modules(): the installed top-level modules, by name.
IterModules(inst) == SelectSeq(ModuleTable, LAMBDA m : IsInstalled(m, inst))

\* importlib.import_module(name) of a top-level name: the module, if there is one.
Lookup(name, inst) ==
    { ModuleTable[i] : i \in { k \in 1..Len(ModuleTable) :
                                 ModuleTable[k].name = name /\ IsInstalled(ModuleTable[k], inst) } }

\* The plugin functions of a module after its import: getmembers with the predicate.
Members(m, at) == SelectSeq(m.funcs, LAMBDA f : IsPluginFunc(at[f]))

RECURSIVE Pairs(_, _, _)
\* The inner loops of _find_functions_in_module: for each member, in order, one
\* pair per pattern, the patterns in the order ord[f] the set is iterated in.
Pairs(fs, at, ord) ==
    IF fs = <<>> THEN <<>>
    ELSE [ i \in 1..Len(ord[Head(fs)]) |-> [pattern |-> ord[Head(fs)][i], func |-> Head(fs)] ]
         \o Pairs(Tail(fs), at, ord)

\* The orders in which the pattern sets of a module's members can be iterated.
IterOrders(fs, at) ==
    { o \in [ Range(fs) -> UNION { Perms(at[f].pats) : f \in Range(fs) } ] :
        \A f \in Range(fs) : o[f] \in Perms(at[f].pats) }

Found(pairs, raised, at) == [found |-> pairs, raised |-> raised, attrs |-> at]

\* Inspecting an imported module: iterating an attribute that is not iterable
\* raises (TypeError), and nothing catches it.
Inspect(m, at, ord) ==
    LET fs == Members(m, at)
    IN IF \E f \in Range(fs) : at[f].kind = "other"
       THEN Found(<<>>, TRUE, at)
       ELSE Found(Pairs(fs, at, ord), FALSE, at)

\* _find_functions_in_module(module_name): an import that fails is skipped, the
\* module that imports is inspected.
FindFunctionsInModule(name, inst, at, ord) ==
    LET ms == Lookup(name, inst)
    IN IF ms = {} THEN Found(<<>>, FALSE, at)
       ELSE LET m == CHOOSE x \in ms : TRUE
            IN IF m.importRaises THEN Found(<<>>, FALSE, at)
               ELSE Inspect(m, RunBody(m.body, at), ord)

\* The orders in which _find_functions_in_module(name) can iterate the pattern
\* sets it meets.
OrdersFor(name, inst, at) ==
    LET ms == Lookup(name, inst)
    IN IF ms = {} THEN { <<>> }
       ELSE LET m == CHOOSE x \in ms : TRUE
                at2 == RunBody(m.body, at)
            IN IF m.importRaises THEN { <<>> } ELSE IterOrders(Members(m, at2), at2)

\* The name filter of find_all_functions.
NameFits(m) == m.startsFileinfo /\ m.endsPlugin

\* found_handlers += new, with the new pairs put in front: a wrong variant.
ExtendInFront(found, new) == new \o found

\* found_handlers += new
Extend(found, new) == found \o new

(***************************************************************************)
(* process_file and find_all_files.                                        *)
(***************************************************************************)
\* The dispatch test with re.fullmatch in place of re.match: a wrong variant.
MatchesWhole(pattern, f) == ReFullMatch(pattern, SuffixOf(f))

\* not (not re.match(pattern, path.suffix))
Matches(pattern, f) == ReMatch(pattern, SuffixOf(f))

RECURSIVE Join(_)
\* "\n".join(map(str, lines))
Join(lines) ==
    IF lines = <<>> THEN ""
    ELSE IF Len(lines) = 1 THEN lines[1]
    ELSE lines[1] \o "\n" \o Join(Tail(lines))

\* Logging each line as the handler yields it: a wrong variant.
LoggedEagerly(r) == IF r.lines = <<>> /\ r.raised THEN <<>> ELSE << Join(r.lines) >>

\* The records LOG.info receives for one handler run: the joined lines, or
\* nothing when the handler raised while join was collecting them.
Logged(r) == IF r.raised THEN <<>> ELSE << Join(r.lines) >>

\* A handler's exception leaving process_file: a wrong variant.
AfterRunUncaught(r) == IF r.raised THEN "crashed_process" ELSE "process"

\* Where control is after the try statement around a handler run.
AfterRun(r) == "process"

\* Leaving the loop at the first entry that matches: a wrong variant.
NextEntryFirstWins(e, matched, n) == IF matched THEN n + 1 ELSE e + 1

\* The for loop over processor_functions: on to the next entry, matched or not.
NextEntry(e, matched, n) == e + 1

\* list(file_paths): the set in the order it happens to iterate: a wrong variant.
Unsorted(it) == it

\* sorted(file_paths), file_paths iterated in the order it.
Sorted(it) == SortFiles(Range(it))

(***************************************************************************)
(* Bounds of the model.                                                    *)
(***************************************************************************)
\* Runs of the tool over the same tree, arguments and providers.
MaxRuns == 2
\* Uses of the decorator in the registration specification.
MaxRegs == 3

\* The sets of installed top-level modules the runs are checked with.
InstalledChoices ==
    { {"fileinfo", "zipfile"},
      {"fileinfo", "zipfile", "fileinfo_csv_plugin", "fileinfo_text_plugin"},
      {"fileinfo", "fileinfo_bad_plugin", "fileinfo_csv_plugin", "fileinfo_text_plugin"},
      {"fileinfo", "fileinfo_extra_plugin"},
      {"fileinfo", "zipfile", "fileinfo_bad_plugin", "fileinfo_csv_plugin",
       "fileinfo_extra_plugin", "fileinfo_pkg_plugin", "fileinfo_text_plugin"},
      {"fileinfo", "fileinfo_pkg_plugin", "fileinfo_text_plugin"},
      {"fileinfo", "fileinfo_csv_plugin", "fileinfo_poison_plugin", "fileinfo_text_plugin"} }

\* The command lines the runs are checked with.
ArgChoices ==
    { << DirD >>,
      << PathOf(1), DirD >>,
      << DirS, PathOf(2), PathOf(3) >>,
      << Gone >>,
      << PathOf(1), Shut, Gone >>,
      << PathOf(2), Barred >> }

(***************************************************************************)
(* The state of a run.                                                     *)
(***************************************************************************)
VARIABLES
    installed,   \* the installed top-level modules
    args,        \* args.path
    run,         \* which run of the tool this is
    prevOut,     \* what the run before this one logged
    prevPc,      \* how the run before this one ended
    prevRegistry,\* the registry the run before this one dispatched on
    pc,          \* where the run is
    attrs,       \* the attribute file_type sets, per function
    registry,    \* found_handlers, then processors
    modIdx,      \* position of find_all_functions in iter_modules()
    walk,        \* submodule names of a package still to search
    argIdx,      \* position of find_all_files in paths
    filePaths,   \* file_paths
    files,       \* the list find_all_files returned
    fidx,        \* position of the main loop in files
    eidx,        \* position of process_file in processor_functions
    out,         \* the records logged at INFO level
    calls,       \* history: the handler runs, each with the record it logged
    blocks,      \* history: per finished file, its records in out
    regLog       \* history: the uses of the decorator

vars ==
    << installed, args, run, prevOut, prevPc, prevRegistry, pc, attrs, registry, modIdx, walk,
       argIdx, filePaths, files, fidx, eidx, out, calls, blocks, regLog >>

world == << installed, args >>
history == << run, prevOut, prevPc, prevRegistry >>
discovery == << attrs, registry, modIdx, walk >>
finding == << argIdx, filePaths, files >>
processing == << fidx, eidx, out, calls, blocks >>

\* The attributes when main starts: fileinfo.plugins has been imported.
StartAttrs == RunBody(ModPlugins.body, NoAttrs)

Fresh ==
    /\ pc = "discover_self"
    /\ attrs = StartAttrs
    /\ registry = <<>>
    /\ modIdx = 1
    /\ walk = <<>>
    /\ argIdx = 1
    /\ filePaths = {}
    /\ files = <<>>
    /\ fidx = 1
    /\ eidx = 1
    /\ out = <<>>
    /\ calls = <<>>
    /\ blocks = <<>>

Init ==
    /\ installed \in InstalledChoices
    /\ args \in ArgChoices
    /\ run = 1
    /\ prevOut = <<>>
    /\ prevPc = "none"
    /\ prevRegistry = <<>>
    /\ regLog = <<>>
    /\ Fresh

\* find_all_functions, first step: the handlers of fileinfo.plugins itself.
DiscoverSelf ==
    /\ pc = "discover_self"
    /\ \E ord \in IterOrders(Members(ModPlugins, attrs), attrs) :
         LET r == Inspect(ModPlugins, attrs, ord)
         IN /\ registry' = Extend(registry, r.found)
            /\ pc' = IF r.raised THEN "crashed_discovery" ELSE "discover"
    /\ UNCHANGED << world, history, attrs, modIdx, walk, finding, processing, regLog >>

\* find_all_functions, one turn of its loop over iter_modules().
DiscoverModule ==
    /\ pc = "discover"
    /\ walk = <<>>
    /\ modIdx <= Len(IterModules(installed))
    /\ LET m == IterModules(installed)[modIdx]
       IN IF ~NameFits(m)
          THEN UNCHANGED << pc, attrs, registry, walk >>
          ELSE IF m.isPkg
          THEN /\ walk' = IF m.importRaises THEN <<>>
                          ELSE [ i \in 1..Len(m.subs) |-> m.subs[i].name ]
               /\ attrs' = IF m.importRaises THEN attrs ELSE RunBody(m.body, attrs)
               /\ UNCHANGED << pc, registry >>
          ELSE \E ord \in OrdersFor(m.name, installed, attrs) :
                 LET r == FindFunctionsInModule(m.name, installed, attrs, ord)
                 IN /\ registry' = Extend(registry, r.found)
                    /\ attrs' = r.attrs
                    /\ pc' = IF r.raised THEN "crashed_discovery" ELSE "discover"
                    /\ UNCHANGED walk
    /\ modIdx' = modIdx + 1
    /\ UNCHANGED << world, history, finding, processing, regLog >>

\* find_all_functions, inside a package: one name walk_packages yields, which
\* is the submodule's name without the package's.
DiscoverSubmodule ==
    /\ pc = "discover"
    /\ walk # <<>>
    /\ \E ord \in OrdersFor(Head(walk), installed, attrs) :
         LET r == FindFunctionsInModule(Head(walk), installed, attrs, ord)
         IN /\ registry' = Extend(registry, r.found)
            /\ attrs' = r.attrs
            /\ pc' = IF r.raised THEN "crashed_discovery" ELSE "discover"
    /\ walk' = Tail(walk)
    /\ UNCHANGED << world, history, modIdx, finding, processing, regLog >>

\* find_all_functions returns; find_all_files starts.
DiscoverReturn ==
    /\ pc = "discover"
    /\ walk = <<>>
    /\ modIdx > Len(IterModules(installed))
    /\ pc' = "find"
    /\ UNCHANGED << world, history, discovery, finding, processing, regLog >>

\* find_all_files, one turn of its loop over paths.
FindArg ==
    /\ pc = "find"
    /\ argIdx <= Len(args)
    /\ LET p == args[argIdx]
       IN IF IsFileRaises(p)
          THEN pc' = "crashed_find" /\ UNCHANGED filePaths
          ELSE /\ filePaths' = IF IsFile(p)
                               THEN filePaths \cup { f \in FileIds : PathOf(f) = p }
                               ELSE filePaths \cup FilesBelow(p)
               /\ UNCHANGED pc
    /\ argIdx' = argIdx + 1
    /\ UNCHANGED << world, history, discovery, files, processing, regLog >>

\* find_all_files returns sorted(file_paths).
FindReturn ==
    /\ pc = "find"
    /\ argIdx > Len(args)
    /\ \E it \in Perms(filePaths) : files' = Sorted(it)
    /\ pc' = "process"
    /\ UNCHANGED << world, history, discovery, argIdx, filePaths, processing, regLog >>

\* process_file, one turn of its loop over processor_functions.
ProcessEntry ==
    /\ pc = "process"
    /\ fidx <= Len(files)
    /\ eidx <= Len(registry)
    /\ LET f == files[fidx]
           e == registry[eidx]
           matched == Matches(e.pattern, f)
       IN /\ IF matched
             THEN LET r == RunHandler(e.func, f)
                  IN /\ out' = out \o Logged(r)
                     /\ calls' = Append(calls,
                                   [file |-> f, entry |-> eidx, func |-> e.func, raised |-> r.raised,
                                    rec |-> IF Len(out') > Len(out) THEN Len(out') ELSE 0])
                     /\ pc' = AfterRun(r)
             ELSE UNCHANGED << out, calls, pc >>
          /\ eidx' = NextEntry(eidx, matched, Len(registry))
    /\ UNCHANGED << world, history, discovery, finding, fidx, blocks, regLog >>

\* process_file, after its loop: the blank record that ends the file's block.
FinishFile ==
    /\ pc = "process"
    /\ fidx <= Len(files)
    /\ eidx > Len(registry)
    /\ out' = Append(out, "")
    /\ blocks' = Append(blocks,
                   [file |-> files[fidx],
                    first |-> IF blocks = <<>> THEN 1 ELSE blocks[Len(blocks)].last + 1,
                    last |-> Len(out')])
    /\ fidx' = fidx + 1
    /\ eidx' = 1
    /\ UNCHANGED << world, history, pc, discovery, finding, calls, regLog >>

\* The main loop is through: the run ends normally.
Finish ==
    /\ pc = "process"
    /\ fidx > Len(files)
    /\ pc' = "done"
    /\ UNCHANGED << world, history, discovery, finding, processing, regLog >>

Ended == pc \in {"done", "crashed_discovery", "crashed_find", "crashed_process"}

\* The tool is run again, in a new process, on the same tree.
Rerun ==
    /\ Ended
    /\ run < MaxRuns
    /\ run' = run + 1
    /\ prevOut' = out
    /\ prevPc' = pc
    /\ prevRegistry' = registry
    /\ pc' = "discover_self"
    /\ attrs' = StartAttrs
    /\ registry' = <<>>
    /\ modIdx' = 1
    /\ walk' = <<>>
    /\ argIdx' = 1
    /\ filePaths' = {}
    /\ files' = <<>>
    /\ fidx' = 1
    /\ eidx' = 1
    /\ out' = <<>>
    /\ calls' = <<>>
    /\ blocks' = <<>>
    /\ UNCHANGED << world, regLog >>

Next ==
    \/ DiscoverSelf
    \/ DiscoverModule
    \/ DiscoverSubmodule
    \/ DiscoverReturn
    \/ FindArg
    \/ FindReturn
    \/ ProcessEntry
    \/ FinishFile
    \/ Finish
    \/ Rerun

Spec == Init /\ [][Next]_vars

(***************************************************************************)
(* Registration on its own: any uses of the decorator, in any order, on    *)
(* functions that start without the attribute.                            *)
(***************************************************************************)
RegFuncs == { "describe", "nothing" }

RegPatterns ==
    { <<>>, << PatCsv >>, << PatC, PatCsv >>, << PatC, PatC >>, << PatAll, PatTxt >> }

RegInit ==
    /\ installed = {"fileinfo"}
    /\ args = <<>>
    /\ run = 1
    /\ prevOut = <<>>
    /\ prevPc = "none"
    /\ prevRegistry = <<>>
    /\ regLog = <<>>
    /\ pc = "registering"
    /\ attrs = NoAttrs
    /\ registry = <<>>
    /\ modIdx = 1
    /\ walk = <<>>
    /\ argIdx = 1
    /\ filePaths = {}
    /\ files = <<>>
    /\ fidx = 1
    /\ eidx = 1
    /\ out = <<>>
    /\ calls = <<>>
    /\ blocks = <<>>

\* file_type(*patterns)(func)
Register ==
    /\ pc = "registering"
    /\ Len(regLog) < MaxRegs
    /\ \E f \in RegFuncs, patterns \in RegPatterns :
         /\ attrs' = [attrs EXCEPT ![f] = FileType(patterns, attrs[f])]
         /\ regLog' = Append(regLog, [func |-> f, pats |-> patterns])
    /\ UNCHANGED << world, history, pc, registry, modIdx, walk, finding, processing >>

SpecReg == RegInit /\ [][Register]_vars

(***************************************************************************)
(* Properties.                                                             *)
(***************************************************************************)
CallIds == 1..Len(calls)
BlockIds == 1..Len(blocks)
EntryIds == 1..Len(registry)

\* process_file has finished file f.
Finished(f) == \E b \in BlockIds : blocks[b].file = f

\* process_file has been through entry i for file f.
Tried(f, i) ==
    \/ Finished(f)
    \/ pc = "process" /\ fidx <= Len(files) /\ files[fidx] = f /\ i < eidx

\* The runs of entry i's handler on file f.
CallsOf(f, i) == { k \in CallIds : calls[k].file = f /\ calls[k].entry = i }

\* The pattern matches some prefix of the extension in full: a match anchored
\* at position 0 that need not reach the end.
MatchesPrefix(pat, ext) == \E n \in 0..Len(ext) : ReFullMatch(pat, SubSeq(ext, 1, n))

\* C1: for every registry entry (P, H) and every file F that process_file has
\* taken past that entry, H was invoked on F, once, if and only if P matches a
\* prefix of F's extension, anchored at its start.
C1_InvokedIffPrefixMatch ==
    \A f \in FileIds, i \in EntryIds :
        Tried(f, i) =>
            /\ (CallsOf(f, i) # {}) <=> MatchesPrefix(registry[i].pattern, SuffixOf(f))
            /\ Cardinality(CallsOf(f, i)) <= 1
            /\ \A k \in CallsOf(f, i) : calls[k].func = registry[i].func

\* C1 witness: the r"\.csv" entry ran on b.csvx, whose extension it matches
\* without consuming it, and was passed over for a file without extension.
C1_Witness ==
    \E i \in EntryIds :
        /\ registry[i].pattern = PatCsv
        /\ CallsOf(6, i) # {}
        /\ Tried(4, i)
        /\ CallsOf(4, i) = {}

\* C2: for one file, entries are tried in registry order and none is skipped
\* after a match: of two matching entries i < j that process_file is past,
\* both ran, i before j, and what i logged precedes what j logged.
C2_RegistryOrder ==
    \A f \in FileIds, i, j \in EntryIds :
        ( /\ i < j
          /\ Tried(f, j)
          /\ Matches(registry[i].pattern, f)
          /\ Matches(registry[j].pattern, f) ) =>
            \E k, l \in CallIds :
                /\ k < l
                /\ k \in CallsOf(f, i)
                /\ l \in CallsOf(f, j)
                /\ (calls[k].rec # 0 /\ calls[l].rec # 0) => calls[k].rec < calls[l].rec

\* C2 witness: a finished file for which three entries matched and logged.
C2_Witness ==
    \E f \in FileIds :
        /\ Finished(f)
        /\ Cardinality({ k \in CallIds : calls[k].file = f /\ calls[k].rec # 0 }) >= 3

\* C3: a handler that raises does not make process_file raise; when the file
\* is finished every matching entry whose handler does not raise has logged
\* its lines inside the file's block, and the block holds, besides what the
\* handlers logged, exactly one record: the blank one, at its end.
C3_FailureIsolated ==
    /\ pc # "crashed_process"
    /\ \A b \in BlockIds :
        LET f == blocks[b].file
            mine == { k \in CallIds : calls[k].file = f }
        IN (\E k \in mine : calls[k].raised) =>
            /\ \A i \in EntryIds :
                 (Matches(registry[i].pattern, f) /\ ~RunHandler(registry[i].func, f).raised) =>
                     \E k \in CallsOf(f, i) :
                         /\ calls[k].rec \in blocks[b].first..(blocks[b].last - 1)
                         /\ out[calls[k].rec] = Join(RunHandler(registry[i].func, f).lines)
            /\ out[blocks[b].last] = ""
            /\ (blocks[b].first..blocks[b].last) \ { calls[k].rec : k \in mine }
                 = { blocks[b].last }

\* C3 witness: a finished file one of whose handlers raised after a line, with
\* a handler that logged before it and one that logged after it.
C3_Witness ==
    \E b \in BlockIds, k, l, m \in CallIds :
        /\ k < l /\ l < m
        /\ calls[k].file = blocks[b].file
        /\ calls[l].file = blocks[b].file
        /\ calls[m].file = blocks[b].file
        /\ calls[k].rec # 0
        /\ calls[l].raised /\ RunHandler(calls[l].func, calls[l].file).lines # <<>>
        /\ calls[m].rec # 0

\* find_all_functions has returned.
Discovered == pc \in {"find", "process", "done", "crashed_find"}

\* C4: the registry find_all_functions returns starts with the fallback entry
\* (".*", default), and the fallback handler has run on every finished file.
C4_FallbackFirstAndAlways ==
    /\ Discovered =>
         /\ registry # <<>>
         /\ registry[1] = [pattern |-> PatAll, func |-> "default"]
    /\ \A b \in BlockIds :
         \E k \in CallIds :
             /\ calls[k].file = blocks[b].file
             /\ calls[k].func = "default"
             /\ calls[k].entry = 1

\* C4 witness: a finished file without extension on which the fallback and
\* another handler ran, and a finished file on which four handlers ran.
C4_Witness ==
    \E b, c \in BlockIds :
        /\ SuffixOf(blocks[b].file) = <<>>
        /\ Cardinality({ k \in CallIds : calls[k].file = blocks[b].file }) >= 2
        /\ Cardinality({ k \in CallIds : calls[k].file = blocks[c].file }) >= 4
        /\ Len(registry) >= 4

\* C5: after any uses of the decorator, a function's attribute is the set of
\* all patterns passed in the uses on that function, and is absent if there
\* was none.
C5_RegistrationCumulative ==
    \A f \in Funcs :
        LET uses == { i \in 1..Len(regLog) : regLog[i].func = f }
        IN IF uses = {} THEN attrs[f] = Absent
           ELSE attrs[f] = AsSet(UNION { Range(regLog[i].pats) : i \in uses })

\* C5 witness: a function decorated three times, the last time with patterns
\* that are not all of those it had.
C5_Witness ==
    /\ Len(regLog) = 3
    /\ \A i \in 1..3 : regLog[i].func = "describe"
    /\ regLog[1].pats = << PatC, PatCsv >>
    /\ regLog[2].pats = << PatAll, PatTxt >>
    /\ regLog[3].pats = << PatC, PatC >>

\* The (pattern, handler) pairs the decorators of one module attach.
PairsIn(m) ==
    UNION { { [pattern |-> p, func |-> m.body[i].func] : p \in Range(m.body[i].pats) }
            : i \in 1..Len(m.body) }

\* A source that loads and can be inspected.
Healthy(m) == ~m.importRaises /\ \A i \in 1..Len(m.body) : m.body[i].op = "file_type"

\* The pairs of the healthy sources among the installed providers: plugin
\* modules, and the submodules of plugin packages.
HealthyPairs ==
    UNION { IF ~(NameFits(m) /\ Healthy(m)) THEN {}
            ELSE IF m.isPkg
            THEN UNION { IF Healthy(m.subs[i]) THEN PairsIn(m.subs[i]) ELSE {}
                         : i \in 1..Len(m.subs) }
            ELSE PairsIn(m)
            : m \in Range(IterModules(installed)) }

\* C6: discovery never raises, and what it returns holds the fallback entry
\* and every pair of every healthy source.
C6_DiscoveryTolerant ==
    /\ pc # "crashed_discovery"
    /\ Discovered =>
         /\ [pattern |-> PatAll, func |-> "default"] \in Range(registry)
         /\ HealthyPairs \subseteq Range(registry)

\* C7: on the file whose content is "a\nbb\nccc\n" process_txt logs "Lines 3"
\* then "Words 3".
C7_ThreeLinesThreeWords ==
    \A k \in CallIds :
        ( /\ calls[k].func = "process_txt"
          /\ ContentOf(calls[k].file) = <<"a", "\n", "b", "b", "\n", "c", "c", "c", "\n">> ) =>
            /\ calls[k].rec # 0
            /\ out[calls[k].rec] = "Lines 3\nWords 3"

\* C8: a run given an argument that does not exist or cannot be traversed
\* does not end normally.
C8_BadArgumentIsFatal ==
    pc = "done" => \A i \in 1..Len(args) : args[i] \notin {Gone, Shut, Barred}

\* C9: a run over the same arguments, tree and providers ends as the run
\* before it did and logs the same records; a run that ends normally has
\* processed each file found once, in ascending path order.
C9_Deterministic ==
    /\ (run > 1 /\ Ended) => (out = prevOut /\ pc = prevPc)
    /\ pc = "done" =>
         /\ Len(blocks) = Len(files)
         /\ \A i \in 1..Len(files) : blocks[i].file = files[i]
         /\ \A i, j \in 1..Len(files) : i < j => PartsLess(PathOf(files[i]), PathOf(files[j]))
         /\ Range(files) = filePaths

\* C9 witness: a second run that ended normally over five files or more,
\* having dispatched on a registry ordered otherwise than the first run's.
C9_Witness ==
    /\ run = 2
    /\ pc = "done"
    /\ Len(files) >= 5
    /\ registry # prevRegistry
    /\ Len(registry) = Len(prevRegistry)

\* C10: a handler run that raised logged nothing, and so no line it had
\* yielded; a run that completed logged one record, its lines joined in
\* order.  process_csv on the empty CSV file leaves no "Rows 0".
C10_AllOrNothing ==
    /\ \A k \in CallIds :
         LET r == RunHandler(calls[k].func, calls[k].file)
         IN /\ calls[k].raised = r.raised
            /\ r.raised => calls[k].rec = 0
            /\ ~r.raised => (calls[k].rec # 0 /\ out[calls[k].rec] = Join(r.lines))
    /\ \A i \in 1..Len(out) : out[i] \notin {"Rows 0", "partial"}
    /\ Len(out) = Cardinality({ k \in CallIds : ~calls[k].raised }) + Len(blocks)

\* C10 witness: process_csv has raised on the empty CSV file after "Rows 0",
\* and has completed on another file with two lines.
C10_Witness ==
    \E k, l \in CallIds :
        /\ calls[k].func = "process_csv" /\ calls[k].file = 3 /\ calls[k].raised
        /\ process_csv(3).lines = << "Rows 0" >>
        /\ calls[l].func = "process_csv" /\ calls[l].rec # 0
        /\ out[calls[l].rec] = "Rows 2\nColumns 2"

=============================================================================
